---- MODULE Spec2Model ----
(***************************************************************************)
(* Buckets collection of textile's threaddb package (src/core/core.go,     *)
(* lines 164-575): the Bucket record, Bucket.UpsertItemAtPath,             *)
(* ensureNoNulls / SaveSafe, Buckets.New with createFFSInstance, and the   *)
(* collection's ValidatorFunc script that the store runs on every patch.   *)
(*                                                                         *)
(* Go values: a slice or map that may be nil is a record                   *)
(* [nil |-> BOOLEAN, v/m |-> contents]; json.Marshal turns nil into JSON   *)
(* null and an empty container into [] or {}.                              *)
(* JavaScript values compared with === / !== are tagged pairs              *)
(* <<"string", s>> and <<"undefined", "">>.                                *)
(***************************************************************************)
EXTENDS Integers, Sequences, FiniteSets, TLC

VARIABLES
    store,   \* the collection in the store: bucket key -> JSON document
    bucket,  \* the *Bucket a caller holds: <<>> or <<b>>
    ffsCol,  \* the FFS instances side collection: bucket key -> record
    pgClient,\* whether the Powergate client is configured (b.pgClient != nil)
    edits,   \* how many times the held Bucket was modified since it was obtained
    last,    \* the last call: its arguments, the state it found, its outcome
    now,     \* time.Now().UnixNano()
    lock,    \* b.lock: the caller that holds the mutex, "" when it is free
    news,    \* the New calls of the concurrent callers: caller -> position and result
    calls,   \* the calls made to Powergate and to the side collection, in order
    status,  \* the last ArchiveStatus call and what it returned
    watch,   \* the ArchiveWatch call: position, scoped context, channels
    mgr      \* b.ctx, b.wg and whether Close has returned

vars == <<store, bucket, ffsCol, pgClient, edits, last, now, lock, news, calls, status, watch,
          mgr>>

\* the state of concurrent provisioning and of the archive calls
prov == <<lock, news, calls>>
arch == <<status, watch, mgr>>

-----------------------------------------------------------------------------
(* Bounds of the model. *)

MaxTime == 2
MaxEdits == 2

Identities == {"O", "N"}
Owners == Identities \cup {""}
PathOrder == <<"a", "b">>
Paths == {PathOrder[i] : i \in 1..Len(PathOrder)}
CidStrings == {"c1", "c2"}
Times == 1..MaxTime
TheKey == "k1"

EmptyObj == [x \in {} |-> 0]

-----------------------------------------------------------------------------
(* Go values. *)

Version == 1

NilList == [nil |-> TRUE, v |-> <<>>]
List(s) == [nil |-> FALSE, v |-> s]
NilMap == [nil |-> TRUE, m |-> EmptyObj]
Map(f) == [nil |-> FALSE, m |-> f]

ACL(w, r, d) == [Write |-> w, Read |-> r, Delete |-> d]
Item(c, a, created, updated) ==
    [Cid |-> c, ACL |-> a, CreatedAt |-> created, UpdatedAt |-> updated]
Archive(c, deals) == [Cid |-> c, Deals |-> deals]
Archives(current, history) == [Current |-> current, History |-> history]
Deal(p, m) == [ProposalCid |-> p, Miner |-> m]

\* len() of a slice: 0 for nil
len(l) == Len(l.v)

-----------------------------------------------------------------------------
(* json.Marshal of a Bucket by its struct tags: nil containers become JSON *)
(* null (the same wrapper with nil = TRUE), "key" is omitted when empty.   *)

MarshalACL(a) == ("$w" :> a.Write) @@ ("$r" :> a.Read) @@ ("$d" :> a.Delete)

MarshalItem(i) ==
    [cid |-> i.Cid, acl |-> MarshalACL(i.ACL),
     created_at |-> i.CreatedAt, updated_at |-> i.UpdatedAt]

MarshalItems(items) ==
    [nil |-> items.nil, m |-> [p \in DOMAIN items.m |-> MarshalItem(items.m[p])]]

MarshalDeal(d) == [proposal_cid |-> d.ProposalCid, miner |-> d.Miner]

MarshalArchive(a) ==
    [cid |-> a.Cid,
     deals |-> [nil |-> a.Deals.nil,
                v |-> [i \in 1..Len(a.Deals.v) |-> MarshalDeal(a.Deals.v[i])]]]

MarshalArchives(a) ==
    [current |-> MarshalArchive(a.Current),
     history |-> [nil |-> a.History.nil,
                  v |-> [i \in 1..Len(a.History.v) |-> MarshalArchive(a.History.v[i])]]]

MarshalBucket(b) ==
    ("_id" :> b.Key) @@
    [owner |-> b.Owner, name |-> b.Name, version |-> b.Version, path |-> b.Path,
     items |-> MarshalItems(b.Items), archives |-> MarshalArchives(b.Archives),
     created_at |-> b.CreatedAt, updated_at |-> b.UpdatedAt] @@
    (IF b.EncKey # "" THEN ("key" :> b.EncKey) ELSE EmptyObj)

-----------------------------------------------------------------------------
(* The patch the store builds for a save: a JSON merge patch of the stored *)
(* instance against the saved document.  An object patch is                *)
(* [set |-> changed members, del |-> members whose patch value is null].   *)

DiffKeys(prev, curr) ==
    {f \in DOMAIN prev \cup DOMAIN curr :
        \/ f \notin DOMAIN prev
        \/ f \notin DOMAIN curr
        \/ prev[f] # curr[f]}

ACLPatch(pa, ca) ==
    LET ch == DiffKeys(pa, ca)
    IN [set |-> [g \in {h \in ch : ~ca[h].nil} |-> ca[g]],
        del |-> {h \in ch : ca[h].nil}]

ItemPatch(pi, ci) ==
    [set |-> [f \in DiffKeys(pi, ci) |->
                IF f = "acl"
                THEN ACLPatch(IF "acl" \in DOMAIN pi THEN pi.acl ELSE EmptyObj, ci.acl)
                ELSE ci[f]],
     del |-> {}]

ItemsPatch(pm, cm) ==
    [set |-> [p \in DiffKeys(pm, cm) \cap DOMAIN cm |->
                ItemPatch(IF p \in DOMAIN pm THEN pm[p] ELSE EmptyObj, cm[p])],
     del |-> DOMAIN pm \ DOMAIN cm]

MergePatch(prev, curr) ==
    LET ch == DiffKeys(prev, curr)
        nulls == {f \in ch : f \notin DOMAIN curr \/ (f = "items" /\ curr[f].nil)}
    IN [set |-> [f \in ch \ nulls |->
                   IF f = "items" THEN ItemsPatch(prev.items.m, curr.items.m)
                   ELSE curr[f]],
        del |-> nulls]

\* event.patch: the envelope of a patch
CreateEvent(doc) ==
    [type |-> "create", instance_id |-> doc["_id"], json_patch |-> [set |-> doc, del |-> {}]]
SaveEvent(prev, curr) ==
    [type |-> "save", instance_id |-> curr["_id"], json_patch |-> MergePatch(prev, curr)]
DeleteEvent(id) ==
    [type |-> "delete", instance_id |-> id, json_patch |-> [set |-> EmptyObj, del |-> {}]]

-----------------------------------------------------------------------------
(* bucketsConfig.ValidatorFunc *)

Accept == "true"
RejectOwner == "author must match new bucket owner"
RejectACL == "only owner can modify bucket access rules"
RejectWrite == "author does not have write access"
RejectNew == "only owner can create new bucket items"
TypeError == "TypeError"

JSString(s) == <<"string", s>>
Undefined == <<"undefined", "">>

\* obj.f for a string-valued member f of a JavaScript object
JSProp(obj, f) == IF f \in DOMAIN obj THEN JSString(obj[f]) ELSE Undefined

\* Object.keys of an object patch, in the order of the marshalled map keys
ObjectKeys(o) == SelectSeq(PathOrder, LAMBDA k : k \in DOMAIN o.set \cup o.del)

\* x.acl.$w.indexOf(author) === -1
IndexOfIsMinusOne(w, author) == ~ \E i \in 1..Len(w.v) : w.v[i] = author

\* the loop with the owner exempted from the write-access check
RECURSIVE SaveLoop_OwnerWrites(_, _, _, _)
SaveLoop_OwnerWrites(keys, items, author, instance) ==
    IF keys = <<>> THEN Accept
    ELSE LET k == Head(keys) IN
         IF k \in items.del THEN TypeError
         ELSE IF "acl" \in DOMAIN items.set[k].set /\ JSString(author) # JSProp(instance, "owner")
              THEN RejectACL
         ELSE IF instance.items.nil THEN TypeError
         ELSE IF k \in DOMAIN instance.items.m
              THEN IF JSString(author) = JSProp(instance, "owner")
                   THEN SaveLoop_OwnerWrites(Tail(keys), items, author, instance)
                   ELSE IF instance.items.m[k].acl["$w"].nil THEN TypeError
                   ELSE IF IndexOfIsMinusOne(instance.items.m[k].acl["$w"], author)
                        THEN RejectWrite
                        ELSE SaveLoop_OwnerWrites(Tail(keys), items, author, instance)
              ELSE IF JSString(author) # JSProp(instance, "owner")
                   THEN RejectNew
                   ELSE SaveLoop_OwnerWrites(Tail(keys), items, author, instance)

\* the loop without the rule on access-rule changes
RECURSIVE SaveLoop_NoACLRule(_, _, _, _)
SaveLoop_NoACLRule(keys, items, author, instance) ==
    IF keys = <<>> THEN Accept
    ELSE LET k == Head(keys) IN
         IF k \in items.del THEN TypeError
         ELSE IF instance.items.nil THEN TypeError
         ELSE IF k \in DOMAIN instance.items.m
              THEN IF instance.items.m[k].acl["$w"].nil THEN TypeError
                   ELSE IF IndexOfIsMinusOne(instance.items.m[k].acl["$w"], author)
                        THEN RejectWrite
                        ELSE SaveLoop_NoACLRule(Tail(keys), items, author, instance)
              ELSE IF JSString(author) # JSProp(instance, "owner")
                   THEN RejectNew
                   ELSE SaveLoop_NoACLRule(Tail(keys), items, author, instance)

RECURSIVE SaveLoop(_, _, _, _)
SaveLoop(keys, items, author, instance) ==
    IF keys = <<>> THEN Accept
    ELSE LET k == Head(keys) IN
         IF k \in items.del THEN TypeError                       \* p is null: p.acl
         ELSE IF "acl" \in DOMAIN items.set[k].set /\ JSString(author) # JSProp(instance, "owner")
              THEN RejectACL
         ELSE IF instance.items.nil THEN TypeError               \* instance.items is null
         ELSE IF k \in DOMAIN instance.items.m
              THEN IF instance.items.m[k].acl["$w"].nil THEN TypeError   \* $w is null
                   ELSE IF IndexOfIsMinusOne(instance.items.m[k].acl["$w"], author)
                        THEN RejectWrite
                        ELSE SaveLoop(Tail(keys), items, author, instance)
              ELSE IF JSString(author) # JSProp(instance, "owner")
                   THEN RejectNew
                   ELSE SaveLoop(Tail(keys), items, author, instance)

\* case "create" reading the owner where case "delete" reads it
CreateCase_EnvelopeOwner(event, author) ==
    IF JSProp(event, "owner") # JSString(author) THEN RejectOwner ELSE Accept

\* case "create"
CreateCase(event, author) ==
    IF JSProp(event.json_patch.set, "owner") # JSString(author) THEN RejectOwner ELSE Accept

\* case "save"
SaveCase(event, author, instance) ==
    IF "items" \notin DOMAIN event.json_patch.set
    THEN TypeError                              \* Object.keys(undefined or null)
    ELSE SaveLoop(ObjectKeys(event.json_patch.set.items), event.json_patch.set.items,
                  author, instance)

\* case "delete": owner is read from the envelope event.patch
DeleteCase(event, author) ==
    IF JSProp(event, "owner") # JSString(author) THEN RejectOwner ELSE Accept

ValidatorFunc(event, author, instance) ==
    CASE event.type = "create" -> CreateCase(event, author)
      [] event.type = "save" -> SaveCase(event, author, instance)
      [] event.type = "delete" -> DeleteCase(event, author)
      [] OTHER -> Accept

-----------------------------------------------------------------------------
(* json.Unmarshal into a Bucket: JSON null gives a nil container, a        *)
(* missing "key" an empty EncKey.                                          *)

UnmarshalACL(a) == ACL(a["$w"], a["$r"], a["$d"])

UnmarshalItem(i) == Item(i.cid, UnmarshalACL(i.acl), i.created_at, i.updated_at)

UnmarshalArchive(a) ==
    Archive(a.cid, [nil |-> a.deals.nil,
                    v |-> [i \in 1..Len(a.deals.v) |->
                             Deal(a.deals.v[i].proposal_cid, a.deals.v[i].miner)]])

UnmarshalBucket(doc) ==
    [Key |-> doc["_id"], Owner |-> doc.owner, Name |-> doc.name, Version |-> doc.version,
     EncKey |-> IF "key" \in DOMAIN doc THEN doc.key ELSE "",
     Path |-> doc.path,
     Items |-> [nil |-> doc.items.nil,
                m |-> [p \in DOMAIN doc.items.m |-> UnmarshalItem(doc.items.m[p])]],
     Archives |-> Archives(UnmarshalArchive(doc.archives.current),
                           [nil |-> doc.archives.history.nil,
                            v |-> [i \in 1..Len(doc.archives.history.v) |->
                                     UnmarshalArchive(doc.archives.history.v[i])]]),
     CreatedAt |-> doc.created_at, UpdatedAt |-> doc.updated_at]

-----------------------------------------------------------------------------
(* Bucket.UpsertItemAtPath.  cid is the cid's String(), nanos is           *)
(* updated.UnixNano().  The caller must not pass a bucket with nil Items:  *)
(* the assignment to an entry of a nil map panics (see UpsertPanics).      *)

UpsertPanics(b) == b.Items.nil

\* the upsert that writes a fresh item whenever it is called
UpsertItemAtPath_AlwaysNew(b, pth, cid, nanos) ==
    LET acl == IF b.Owner # "" THEN List(<<b.Owner>>) ELSE NilList
    IN [b EXCEPT !.Items.m = (pth :> Item(cid, ACL(acl, acl, acl), nanos, nanos)) @@ @]

\* the upsert that puts the Owner field in the ACL of a new item as it is
UpsertItemAtPath_OwnerAsIs(b, pth, cid, nanos) ==
    LET ok == pth \in DOMAIN b.Items.m IN
    IF ok /\ b.Items.m[pth].Cid # cid
    THEN [b EXCEPT !.Items.m[pth] = [@ EXCEPT !.Cid = cid, !.UpdatedAt = nanos]]
    ELSE LET acl == List(<<b.Owner>>)
         IN [b EXCEPT !.Items.m = (pth :> Item(cid, ACL(acl, acl, acl), nanos, nanos)) @@ @]

UpsertItemAtPath(b, pth, cid, nanos) ==
    LET ok == pth \in DOMAIN b.Items.m IN
    IF ok /\ b.Items.m[pth].Cid # cid
    THEN [b EXCEPT !.Items.m[pth] = [@ EXCEPT !.Cid = cid, !.UpdatedAt = nanos]]
    ELSE LET acl == IF b.Owner # "" THEN List(<<b.Owner>>) ELSE NilList
         IN [b EXCEPT !.Items.m = (pth :> Item(cid, ACL(acl, acl, acl), nanos, nanos)) @@ @]

-----------------------------------------------------------------------------
(* ensureNoNulls *)

\* the normalization that rebuilds Archives from the Current it has just reset
ensureNoNulls_CurrentReset(b) ==
    LET b1 == IF b.Items.nil THEN [b EXCEPT !.Items = Map(EmptyObj)] ELSE b IN
    IF len(b1.Archives.History) = 0
    THEN LET b2 == IF len(b1.Archives.Current.Deals) = 0
                   THEN [b1 EXCEPT !.Archives.Current = Archive("", List(<<>>))]
                   ELSE b1
         IN [b2 EXCEPT !.Archives = Archives(b2.Archives.Current, List(<<>>))]
    ELSE b1

ensureNoNulls(b) ==
    LET b1 == IF b.Items.nil THEN [b EXCEPT !.Items = Map(EmptyObj)] ELSE b IN
    IF len(b1.Archives.History) = 0
    THEN LET current == b1.Archives.Current
             b2 == IF len(current.Deals) = 0
                   THEN [b1 EXCEPT !.Archives.Current = Archive("", List(<<>>))]
                   ELSE b1
         IN [b2 EXCEPT !.Archives = Archives(current, List(<<>>))]
    ELSE b1

-----------------------------------------------------------------------------
(* The record of the last call. *)

NoEvent == [type |-> "none", instance_id |-> "", json_patch |-> [set |-> EmptyObj, del |-> {}]]
NoArgs == [pth |-> "", cid |-> "", nanos |-> 0]

\* a call on the store: its author, the patch event, the validator's or the
\* call's result, the collection it found
Call(op, author, event, result) ==
    [op |-> op, author |-> author, event |-> event, args |-> NoArgs, result |-> result,
     pre |-> store, held |-> <<>>]

\* a call on the held Bucket alone
Edited(op, result) ==
    [op |-> op, author |-> "", event |-> NoEvent, args |-> NoArgs, result |-> result,
     pre |-> EmptyObj, held |-> <<>>]

\* a call of a function on a Bucket, with its arguments and the Bucket it was given
Applied(op, args, result) ==
    [op |-> op, author |-> "", event |-> NoEvent, args |-> args, result |-> result,
     pre |-> EmptyObj, held |-> bucket]

NoCall == [op |-> "none", author |-> "", event |-> NoEvent, args |-> NoArgs,
           result |-> "", pre |-> EmptyObj, held |-> <<>>]

-----------------------------------------------------------------------------
(* The side collection of FFS instances (b.ffsCol) and the records of the  *)
(* calls that run step by step: concurrent New calls, ArchiveStatus,       *)
(* ArchiveWatch.                                                           *)

Callers == {"p1", "p2"}
Keys == {"k1", "k2"}

\* Archives.Current of a side record as ArchiveStatus and ArchiveWatch read it
Current(jobID, jobStatus, failureMsg, aborted, abortedMsg, c) ==
    [JobID |-> jobID, JobStatus |-> jobStatus, FailureMsg |-> failureMsg,
     Aborted |-> aborted, AbortedMsg |-> abortedMsg, Cid |-> c]

\* the side record of an instance with no archive yet
NoJob == Current("", 0, "", FALSE, "", "")

FFSInstance(token, waddr, current) ==
    [FFSToken |-> token, WalletAddr |-> waddr, Archives |-> [Current |-> current]]

\* an error value: what it says and the message it carries
Err(kind, msg) == <<kind, msg>>
NoErr == Err("nil", "")

\* a caller that is not inside New
Idle == [pc |-> "idle", key |-> "", id |-> "", owner |-> "", tok |-> "", err |-> "",
         cause |-> "", ret |-> <<>>]
NoNews == [p \in Callers |-> Idle]

\* the manager as NewBuckets returns it: b.ctx not cancelled, b.wg at zero
NoMgr == [cancelled |-> FALSE, wg |-> 0, closed |-> FALSE]

NoStatus == [called |-> FALSE, key |-> "", read |-> FALSE, js |-> 0, msg |-> "", err |-> NoErr]

NoWatch == [pc |-> "idle", key |-> "", read |-> FALSE, err |-> NoErr, derived |-> FALSE,
            cancelled |-> FALSE, callerDone |-> FALSE, reading |-> TRUE, sub |-> "none",
            le |-> <<>>, received |-> <<>>, sink |-> <<>>]

-----------------------------------------------------------------------------
(* The buckets manager over the store: Buckets.New, Buckets.SaveSafe, and  *)
(* what callers do with the Bucket they hold.                              *)

WriteLists == {NilList, List(<<"O">>), List(<<"N">>), List(<<"O", "N">>)}
ACLChoices == {ACL(l, l, l) : l \in WriteLists}

ErrTokenOwner == "creating bucket: token owner mismatch"
ErrCreate == "creating bucket in thread"
ErrFFS == "creating FFS instance for bucket"
ErrSave == "instance not found"
Panic == "panic"
OK == "nil"

\* the steps of createFFSInstance that can fail at the remote side
FFSSteps == {"FFS.Create", "FFS.Info", "ffsCol.Create", "FFS.SetDefaultConfig"}

\* Callers are authenticated: every call carries a token whose subject is one
\* of Identities, and the store passes that subject to the validator as author.

\* the bucket built by New
NewBucket(key, name, encKey, pth, owner, nanos) ==
    [Key |-> key, Owner |-> owner, Name |-> name, Version |-> Version, EncKey |-> encKey,
     Path |-> pth, Items |-> Map(EmptyObj),
     Archives |-> Archives(Archive("", List(<<>>)), List(<<>>)),
     CreatedAt |-> nanos, UpdatedAt |-> nanos]

\* createFFSInstance(bucketKey) when the remote step `failed` fails ("" for none):
\* the side collection afterwards
createFFSInstance(key, failed) ==
    IF ~pgClient \/ failed \in {"FFS.Create", "FFS.Info", "ffsCol.Create"}
    THEN ffsCol
    ELSE (key :> FFSInstance("t", "w", NoJob)) @@ ffsCol

\* the token check that never fires
TokenMismatch_Never(owner, tok) == FALSE

\* owner.String() != tokenOwner.String()
TokenMismatch(owner, tok) == owner # tok

New(owner, tok, failed) ==
    /\ IF TokenMismatch(owner, tok)
       THEN /\ last' = Call("New", tok, NoEvent, ErrTokenOwner)
            /\ UNCHANGED <<store, bucket, ffsCol, edits>>
       ELSE LET b == NewBucket(TheKey, "", "", "p", owner, now)
                doc == MarshalBucket(b)
                ev == CreateEvent(doc)
                v == ValidatorFunc(ev, tok, EmptyObj)
            IN IF TheKey \in DOMAIN store \/ v # Accept
               THEN /\ last' = Call("New", tok, ev, ErrCreate)
                    /\ UNCHANGED <<store, bucket, ffsCol, edits>>
               ELSE /\ store' = (TheKey :> doc) @@ store
                    /\ ffsCol' = createFFSInstance(TheKey, failed)
                    /\ IF pgClient /\ failed # ""
                       THEN /\ last' = Call("New", tok, ev, ErrFFS)
                            /\ UNCHANGED <<bucket, edits>>
                       ELSE /\ last' = Call("New", tok, ev, OK)
                            /\ bucket' = <<b>>
                            /\ edits' = 0
    /\ UNCHANGED <<pgClient, now, prov, arch>>

\* a caller reads the stored bucket into a Bucket
Get ==
    /\ TheKey \in DOMAIN store
    /\ bucket' = <<UnmarshalBucket(store[TheKey])>>
    /\ edits' = 0
    /\ last' = Edited("Get", OK)
    /\ UNCHANGED <<store, ffsCol, pgClient, now, prov, arch>>

Upsert(pth, cid, nanos) ==
    /\ bucket # <<>>
    /\ edits < MaxEdits
    /\ edits' = edits + 1
    /\ IF UpsertPanics(bucket[1])
       THEN /\ last' = Edited("UpsertItemAtPath", Panic)
            /\ UNCHANGED bucket
       ELSE /\ bucket' = <<UpsertItemAtPath(bucket[1], pth, cid, nanos)>>
            /\ last' = Edited("UpsertItemAtPath", OK)
    /\ UNCHANGED <<store, ffsCol, pgClient, now, prov, arch>>

\* a caller assigns the exported Owner field
WriteOwner(o) ==
    /\ bucket # <<>>
    /\ bucket[1].Owner # o
    /\ edits < MaxEdits
    /\ edits' = edits + 1
    /\ bucket' = <<[bucket[1] EXCEPT !.Owner = o]>>
    /\ last' = Edited("WriteOwner", OK)
    /\ UNCHANGED <<store, ffsCol, pgClient, now, prov, arch>>

\* a caller assigns the ACL of an item
WriteACL(pth, acl) ==
    /\ bucket # <<>>
    /\ pth \in DOMAIN bucket[1].Items.m
    /\ bucket[1].Items.m[pth].ACL # acl
    /\ edits < MaxEdits
    /\ edits' = edits + 1
    /\ bucket' = <<[bucket[1] EXCEPT !.Items.m[pth].ACL = acl]>>
    /\ last' = Edited("WriteACL", OK)
    /\ UNCHANGED <<store, ffsCol, pgClient, now, prov, arch>>

SaveSafe(author) ==
    /\ bucket # <<>>
    /\ LET b == ensureNoNulls(bucket[1])
           doc == MarshalBucket(b)
       IN /\ bucket' = <<b>>
          /\ IF b.Key \notin DOMAIN store
             THEN /\ last' = Call("SaveSafe", author, NoEvent, ErrSave)
                  /\ UNCHANGED store
             ELSE LET ev == SaveEvent(store[b.Key], doc)
                      v == ValidatorFunc(ev, author, store[b.Key])
                  IN /\ last' = Call("SaveSafe", author, ev, v)
                     /\ store' = IF v = Accept THEN [store EXCEPT ![b.Key] = doc] ELSE store
    /\ UNCHANGED <<ffsCol, pgClient, edits, now, prov, arch>>

\* a manager built by NewBuckets without a Powergate client, on an empty collection
Init ==
    /\ store = EmptyObj
    /\ bucket = <<>>
    /\ ffsCol = EmptyObj
    /\ pgClient = FALSE
    /\ edits = 0
    /\ last = NoCall
    /\ now = 1
    /\ lock = ""
    /\ news = NoNews
    /\ calls = <<>>
    /\ status = NoStatus
    /\ watch = NoWatch
    /\ mgr = NoMgr

Next ==
    \/ \E owner \in Identities, tok \in Identities,
          failed \in (IF pgClient THEN FFSSteps ELSE {}) \cup {""} :
          New(owner, tok, failed)
    \/ Get
    \/ \E pth \in Paths, cid \in CidStrings : Upsert(pth, cid, now)
    \/ \E o \in Identities : WriteOwner(o)
    \/ \E pth \in Paths, acl \in ACLChoices : WriteACL(pth, acl)
    \/ \E author \in Identities : SaveSafe(author)

Spec == Init /\ [][Next]_vars

TypeOK == now \in Times

-----------------------------------------------------------------------------
(* The validator as a function: every stored instance of a bounded domain, *)
(* every author, and every patch the store can build against it.           *)

\* maps from a subset of the paths to items
ItemMaps(items) == UNION {[S -> items] : S \in SUBSET Paths}

DocOf(owner, m) ==
    MarshalBucket([NewBucket(TheKey, "", "", "p", owner, 1) EXCEPT !.Items = Map(m)])

InstanceItems == {Item("c1", ACL(w, w, w), 1, 1) : w \in WriteLists}
SavedItems ==
    {Item(c, ACL(w, w, w), 1, 1) : c \in CidStrings, w \in WriteLists} \cup
    {Item(c, ACL(List(<<"O">>), NilList, NilList), 1, 1) : c \in CidStrings}

\* a stored bucket whose items member is null: the record of a Bucket with
\* nil Items, the one ensureNoNulls repairs when it is saved again
NullItemsDoc(owner) == [DocOf(owner, EmptyObj) EXCEPT !.items = MarshalItems(NilMap)]

InstanceDocs ==
    {DocOf(o, m) : o \in Owners, m \in ItemMaps(InstanceItems)} \cup
    {NullItemsDoc(o) : o \in Owners}
SavedDocs == {DocOf(o, m) : o \in Owners, m \in ItemMaps(SavedItems)}

InitValidator ==
    /\ store \in {EmptyObj} \cup {(TheKey :> doc) : doc \in InstanceDocs}
    /\ bucket = <<>>
    /\ ffsCol = EmptyObj
    /\ pgClient = FALSE
    /\ edits = 0
    /\ last = NoCall
    /\ now = 1
    /\ lock = ""
    /\ news = NoNews
    /\ calls = <<>>
    /\ status = NoStatus
    /\ watch = NoWatch
    /\ mgr = NoMgr

ValidateCreate(author, doc) ==
    /\ last = NoCall
    /\ store = EmptyObj
    /\ last' = Call("validate", author, CreateEvent(doc),
                    ValidatorFunc(CreateEvent(doc), author, EmptyObj))
    /\ UNCHANGED <<store, bucket, ffsCol, pgClient, edits, now, prov, arch>>

ValidateSave(author, doc) ==
    /\ last = NoCall
    /\ TheKey \in DOMAIN store
    /\ bucket' = <<UnmarshalBucket(doc)>>
    /\ last' = Call("validate", author, SaveEvent(store[TheKey], doc),
                    ValidatorFunc(SaveEvent(store[TheKey], doc), author, store[TheKey]))
    /\ UNCHANGED <<store, ffsCol, pgClient, edits, now, prov, arch>>

ValidateDelete(author) ==
    /\ last = NoCall
    /\ TheKey \in DOMAIN store
    /\ last' = Call("validate", author, DeleteEvent(TheKey),
                    ValidatorFunc(DeleteEvent(TheKey), author, store[TheKey]))
    /\ UNCHANGED <<store, bucket, ffsCol, pgClient, edits, now, prov, arch>>

NextValidator ==
    \/ \E author \in Identities, doc \in InstanceDocs : ValidateCreate(author, doc)
    \/ \E author \in Identities, doc \in SavedDocs : ValidateSave(author, doc)
    \/ \E author \in Identities : ValidateDelete(author)

SpecValidator == InitValidator /\ [][NextValidator]_vars

-----------------------------------------------------------------------------
(* UpsertItemAtPath and ensureNoNulls as functions of the Bucket they are  *)
(* given: every Bucket of a bounded domain, nil containers included.       *)

TheDeal == Deal("d", "m")

ArchivesDomain ==
    {Archives(Archive("", NilList), NilList),
     Archives(Archive("c1", NilList), NilList),
     Archives(Archive("", List(<<>>)), List(<<>>)),
     Archives(Archive("c1", NilList), List(<<>>)),
     Archives(Archive("c1", List(<<TheDeal>>)), NilList),
     Archives(Archive("c2", NilList), List(<<Archive("c1", NilList)>>))}

HeldItems ==
    {Item(c, ACL(w, w, w), 1, t) : c \in CidStrings, w \in {NilList, List(<<"O">>), List(<<"O", "N">>)},
                                   t \in Times}

HeldBuckets ==
    {[NewBucket(TheKey, "", "", "p", o, 1) EXCEPT !.Items = items, !.Archives = a] :
        o \in {"O", ""}, a \in ArchivesDomain,
        items \in {NilMap} \cup {Map(m) : m \in ItemMaps(HeldItems)}}

InitBucket ==
    /\ store = EmptyObj
    /\ bucket \in {<<b>> : b \in HeldBuckets}
    /\ ffsCol = EmptyObj
    /\ pgClient = FALSE
    /\ edits = 0
    /\ last = NoCall
    /\ now = 1
    /\ lock = ""
    /\ news = NoNews
    /\ calls = <<>>
    /\ status = NoStatus
    /\ watch = NoWatch
    /\ mgr = NoMgr

CallUpsert(pth, cid, nanos) ==
    /\ IF UpsertPanics(bucket[1])
       THEN /\ last' = Applied("UpsertItemAtPath", [pth |-> pth, cid |-> cid, nanos |-> nanos], Panic)
            /\ UNCHANGED bucket
       ELSE /\ last' = Applied("UpsertItemAtPath", [pth |-> pth, cid |-> cid, nanos |-> nanos], OK)
            /\ bucket' = <<UpsertItemAtPath(bucket[1], pth, cid, nanos)>>
    /\ UNCHANGED <<store, ffsCol, pgClient, edits, now, prov, arch>>

CallEnsureNoNulls ==
    /\ last' = Applied("ensureNoNulls", NoArgs, OK)
    /\ bucket' = <<ensureNoNulls(bucket[1])>>
    /\ UNCHANGED <<store, ffsCol, pgClient, edits, now, prov, arch>>

NextBucket ==
    \/ \E pth \in Paths, cid \in CidStrings, nanos \in Times : CallUpsert(pth, cid, nanos)
    \/ CallEnsureNoNulls

SpecBucket == InitBucket /\ [][NextBucket]_vars

-----------------------------------------------------------------------------
(* New, UpsertItemAtPath with any `updated` time, and SaveSafe.            *)

NextUpsert ==
    \/ \E owner \in Identities, tok \in Identities : New(owner, tok, "")
    \/ \E pth \in Paths, cid \in CidStrings, nanos \in Times : Upsert(pth, cid, nanos)
    \/ \E author \in Identities : SaveSafe(author)

SpecUpsert == Init /\ [][NextUpsert]_vars

-----------------------------------------------------------------------------
(* Buckets.New step by step, for callers that run concurrently on one      *)
(* manager.  A step ends at a store call, at b.lock.Lock(), or at a remote *)
(* call of createFFSInstance; each remote call succeeds or fails as the    *)
(* remote side decides.  An owner of "" is a nil thread.PubKey.            *)

ErrFFSCreate == "creating FFS instance"
ErrFFSInfo == "getting information about created ffs instance"
ErrFFSColCreate == "saving FFS instances data"
ErrFFSConfig == "setting default bucket FFS cidconfig"

\* the positions between b.lock.Lock() and the deferred b.lock.Unlock()
Inside == {"pgClient", "FFS.Create", "FFS.Info", "ffsCol.Create", "FFS.SetDefaultConfig"}

IsArchivingEnabled == pgClient

\* a Lock that does not wait for the mutex
Lock_NoWait(p) == lock' = p

\* b.lock.Lock()
Lock(p) == lock = "" /\ lock' = p

\* a return that leaves the mutex held
Unlock_Skipped == lock' = lock

\* defer b.lock.Unlock()
Unlock == lock' = ""

\* the check for a missing client that never fires
NoClient_Never == FALSE

\* b.pgClient == nil
NoClient == ~pgClient

\* New returning the bucket whatever createFFSInstance returned
NewResult_IgnoreFFS(cause, b) == [err |-> OK, cause |-> "", ret |-> <<b>>]

\* what New returns after createFFSInstance returned cause ("" for nil)
NewResult(cause, b) ==
    IF cause # ""
    THEN [err |-> ErrFFS, cause |-> cause, ret |-> <<>>]
    ELSE [err |-> OK, cause |-> "", ret |-> <<b>>]

Returned(p, r) ==
    news' = [news EXCEPT ![p] = [@ EXCEPT !.pc = "idle", !.err = r.err, !.cause = r.cause,
                                          !.ret = r.ret]]

Panicked(p) ==
    news' = [news EXCEPT ![p] = [@ EXCEPT !.pc = "idle", !.err = Panic, !.cause = "",
                                          !.ret = <<>>]]

At(p, pc) == news' = [news EXCEPT ![p].pc = pc]

Called(p, step, ok) ==
    calls' = Append(calls, [caller |-> p, key |-> news[p].key, step |-> step, ok |-> ok])

\* the bucket New has built and created in the store, with bucket.Key = string(id)
Built(p) == NewBucket(news[p].id, "", "", "p", news[p].owner, now)

\* the identifiers the store gives to instances created without one, in order
IdOrder == <<"id1", "id2">>
StoreIds == {IdOrder[i] : i \in 1..Len(IdOrder)}

\* the identifier of an instance created with `_id` key: the key itself, or
\* for an empty key the next identifier of the store (<<>> when the model has
\* no identifier left)
AssignedId(key) ==
    IF key # "" THEN <<key>>
    ELSE LET n == Cardinality(DOMAIN store \cap StoreIds)
         IN IF n < Len(IdOrder) THEN <<IdOrder[n + 1]>> ELSE <<>>

\* New up to the return of b.Create
NewCall(p, key, owner, tok) ==
    /\ news[p].pc = "idle"
    /\ AssignedId(key) # <<>>
    /\ LET id == AssignedId(key)[1]
           call == [Idle EXCEPT !.key = key, !.owner = owner, !.tok = tok]
           doc == MarshalBucket(NewBucket(id, "", "", "p", owner, now))
           v == ValidatorFunc(CreateEvent(doc), tok, EmptyObj)
       IN IF owner = ""
          THEN /\ news' = [news EXCEPT ![p] = [call EXCEPT !.err = Panic]]  \* owner.String()
               /\ UNCHANGED store
          ELSE IF TokenMismatch(owner, tok)
          THEN /\ news' = [news EXCEPT ![p] = [call EXCEPT !.err = ErrTokenOwner]]
               /\ UNCHANGED store
          ELSE IF id \in DOMAIN store \/ v # Accept
          THEN /\ news' = [news EXCEPT ![p] = [call EXCEPT !.err = ErrCreate]]
               /\ UNCHANGED store
          ELSE /\ news' = [news EXCEPT ![p] = [call EXCEPT !.pc = "Lock", !.id = id]]
               /\ store' = (id :> doc) @@ store
    /\ UNCHANGED <<bucket, ffsCol, pgClient, edits, last, now, lock, calls, arch>>

\* createFFSInstance: b.lock.Lock()
Acquire(p) ==
    /\ news[p].pc = "Lock"
    /\ Lock(p)
    /\ At(p, "pgClient")
    /\ UNCHANGED <<store, bucket, ffsCol, pgClient, edits, last, now, calls, arch>>

\* createFFSInstance: if b.pgClient == nil { return nil }
NilCheck(p) ==
    /\ news[p].pc = "pgClient"
    /\ IF NoClient
       THEN Unlock /\ Returned(p, NewResult("", Built(p)))
       ELSE At(p, "FFS.Create") /\ UNCHANGED lock
    /\ UNCHANGED <<store, bucket, ffsCol, pgClient, edits, last, now, calls, arch>>

\* createFFSInstance: b.pgClient.FFS.Create
FFSCreate(p, ok) ==
    /\ news[p].pc = "FFS.Create"
    /\ Called(p, "FFS.Create", ok)
    /\ IF ok
       THEN At(p, "FFS.Info") /\ UNCHANGED lock
       ELSE Unlock /\ Returned(p, NewResult(ErrFFSCreate, Built(p)))
    /\ UNCHANGED <<store, bucket, ffsCol, pgClient, edits, last, now, arch>>

\* createFFSInstance: b.pgClient.FFS.Info and i.Balances[0]; out is "ok",
\* "err", or "empty" for an info without balances
FFSInfo(p, out) ==
    /\ news[p].pc = "FFS.Info"
    /\ Called(p, "FFS.Info", out # "err")
    /\ CASE out = "ok" -> At(p, "ffsCol.Create") /\ UNCHANGED lock
         [] out = "err" -> Unlock /\ Returned(p, NewResult(ErrFFSInfo, Built(p)))
         [] OTHER -> Unlock /\ Panicked(p)                       \* index out of range
    /\ UNCHANGED <<store, bucket, ffsCol, pgClient, edits, last, now, arch>>

\* a failed b.ffsCol.Create after which createFFSInstance goes on
FFSColCreate_GoesOn(p, ok) ==
    /\ news[p].pc = "ffsCol.Create"
    /\ Called(p, "ffsCol.Create", ok)
    /\ ffsCol' = IF ok THEN (news[p].key :> FFSInstance("t", "w", NoJob)) @@ ffsCol ELSE ffsCol
    /\ At(p, "FFS.SetDefaultConfig")
    /\ UNCHANGED lock
    /\ UNCHANGED <<store, bucket, pgClient, edits, last, now, arch>>

\* createFFSInstance: b.ffsCol.Create
FFSColCreate(p, ok) ==
    /\ news[p].pc = "ffsCol.Create"
    /\ Called(p, "ffsCol.Create", ok)
    /\ IF ok
       THEN /\ ffsCol' = (news[p].key :> FFSInstance("t", "w", NoJob)) @@ ffsCol
            /\ At(p, "FFS.SetDefaultConfig")
            /\ UNCHANGED lock
       ELSE /\ Unlock
            /\ Returned(p, NewResult(ErrFFSColCreate, Built(p)))
            /\ UNCHANGED ffsCol
    /\ UNCHANGED <<store, bucket, pgClient, edits, last, now, arch>>

\* createFFSInstance: b.pgClient.FFS.SetDefaultConfig, and the return of New
SetDefaultConfig(p, ok) ==
    /\ news[p].pc = "FFS.SetDefaultConfig"
    /\ Called(p, "FFS.SetDefaultConfig", ok)
    /\ Unlock
    /\ Returned(p, NewResult(IF ok THEN "" ELSE ErrFFSConfig, Built(p)))
    /\ UNCHANGED <<store, bucket, ffsCol, pgClient, edits, last, now, arch>>

\* a manager built by NewBuckets with or without a Powergate client
InitFFS ==
    /\ store = EmptyObj
    /\ bucket = <<>>
    /\ ffsCol = EmptyObj
    /\ pgClient \in BOOLEAN
    /\ edits = 0
    /\ last = NoCall
    /\ now = 1
    /\ lock = ""
    /\ news = NoNews
    /\ calls = <<>>
    /\ status = NoStatus
    /\ watch = NoWatch
    /\ mgr = NoMgr

NextFFS ==
    \/ \E p \in Callers, key \in Keys, owner \in Owners, tok \in Identities :
          NewCall(p, key, owner, tok)
    \/ \E p \in Callers : Acquire(p)
    \/ \E p \in Callers : NilCheck(p)
    \/ \E p \in Callers, ok \in BOOLEAN : FFSCreate(p, ok)
    \/ \E p \in Callers, out \in {"ok", "err", "empty"} : FFSInfo(p, out)
    \/ \E p \in Callers, ok \in BOOLEAN : FFSColCreate(p, ok)
    \/ \E p \in Callers, ok \in BOOLEAN : SetDefaultConfig(p, ok)

SpecFFS == InitFFS /\ [][NextFFS]_vars

\* the same manager with callers of one identity that give New a key or none
NextKeys ==
    \/ \E p \in Callers, key \in {TheKey, ""} : NewCall(p, key, "O", "O")
    \/ \E p \in Callers : Acquire(p)
    \/ \E p \in Callers : NilCheck(p)
    \/ \E p \in Callers, ok \in BOOLEAN : FFSCreate(p, ok)
    \/ \E p \in Callers, out \in {"ok", "err", "empty"} : FFSInfo(p, out)
    \/ \E p \in Callers, ok \in BOOLEAN : FFSColCreate(p, ok)
    \/ \E p \in Callers, ok \in BOOLEAN : SetDefaultConfig(p, ok)

SpecKeys == InitFFS /\ [][NextKeys]_vars

\* the steps of createFFSInstance of caller p between Lock and its return
Run(p) ==
    \/ NilCheck(p)
    \/ \E ok \in BOOLEAN : FFSCreate(p, ok)
    \/ \E out \in {"ok", "err", "empty"} : FFSInfo(p, out)
    \/ \E ok \in BOOLEAN : FFSColCreate(p, ok)
    \/ \E ok \in BOOLEAN : SetDefaultConfig(p, ok)

\* the goroutine that holds the mutex runs and its remote calls return; a
\* goroutine waiting in b.lock.Lock() gets the mutex if it is free again and
\* again (sync.Mutex hands it to the oldest waiter in starvation mode)
SpecKeysFair ==
    InitFFS /\ [][NextKeys]_vars
        /\ \A p \in Callers : SF_vars(Acquire(p)) /\ WF_vars(Run(p))

-----------------------------------------------------------------------------
(* ArchiveStatus and ArchiveWatch over the side collection.  The side      *)
(* records are written elsewhere (job submission and job tracking); here   *)
(* they are any record of a bounded domain.  ArchiveWatch runs step by     *)
(* step: a step ends at the receive from ffsCh and at the send on ch.      *)

MaxLog == 3

LogLines == {"l1", "l2"}
StreamErr == Err("stream", "e")

ErrGetFFS == "getting ffs instance data"
ErrNoCurrentArchive == "no current archive"
ErrAborted == "job status tracking was aborted"
ErrParseCid == "parsing current archive cid"
ErrWatchLogs == "watching log events in Powergate"

\* ffs.Failed
Failed == 3

\* ffs.JobStatus(n): a conversion between integer types
JobStatus(n) == n

\* cid.Cast of the bytes of a side record: <<cid>>, or <<>> for an error
Cast(c) == IF c \in CidStrings THEN <<c>> ELSE <<>>

\* b.ffsCol.Get: <<record>>, or <<>> for an error
FFSColGet(key, reachable) ==
    IF reachable /\ key \in DOMAIN ffsCol THEN <<ffsCol[key]>> ELSE <<>>

\* ArchiveStatus looking at the abort flag before the job id
ArchiveStatusOf_AbortedFirst(got) ==
    IF got = <<>> THEN [js |-> Failed, msg |-> "", err |-> Err(ErrGetFFS, "")]
    ELSE LET current == got[1].Archives.Current IN
         IF current.Aborted
         THEN [js |-> Failed, msg |-> "", err |-> Err(ErrAborted, current.AbortedMsg)]
         ELSE IF current.JobID = ""
         THEN [js |-> Failed, msg |-> "", err |-> Err(ErrNoCurrentArchive, "")]
         ELSE [js |-> JobStatus(current.JobStatus), msg |-> current.FailureMsg, err |-> NoErr]

\* what ArchiveStatus returns for the result of b.ffsCol.Get
ArchiveStatusOf(got) ==
    IF got = <<>> THEN [js |-> Failed, msg |-> "", err |-> Err(ErrGetFFS, "")]
    ELSE LET current == got[1].Archives.Current IN
         IF current.JobID = ""
         THEN [js |-> Failed, msg |-> "", err |-> Err(ErrNoCurrentArchive, "")]
         ELSE IF current.Aborted
         THEN [js |-> Failed, msg |-> "", err |-> Err(ErrAborted, current.AbortedMsg)]
         ELSE [js |-> JobStatus(current.JobStatus), msg |-> current.FailureMsg, err |-> NoErr]

\* ArchiveWatch without the check of the abort flag
WatchResolve_NoAbortCheck(got) ==
    IF got = <<>> THEN Err(ErrGetFFS, "")
    ELSE LET current == got[1].Archives.Current IN
         IF current.JobID = "" THEN Err(ErrNoCurrentArchive, "")
         ELSE IF Cast(current.Cid) = <<>> THEN Err(ErrParseCid, "")
         ELSE NoErr

\* ArchiveWatch looking at the abort flag before the job id
WatchResolve_AbortedFirst(got) ==
    IF got = <<>> THEN Err(ErrGetFFS, "")
    ELSE LET current == got[1].Archives.Current IN
         IF current.Aborted THEN Err(ErrAborted, current.AbortedMsg)
         ELSE IF current.JobID = "" THEN Err(ErrNoCurrentArchive, "")
         ELSE IF Cast(current.Cid) = <<>> THEN Err(ErrParseCid, "")
         ELSE NoErr

\* the error ArchiveWatch returns before it derives its context, NoErr for none
WatchResolve(got) ==
    IF got = <<>> THEN Err(ErrGetFFS, "")
    ELSE LET current == got[1].Archives.Current IN
         IF current.JobID = "" THEN Err(ErrNoCurrentArchive, "")
         ELSE IF current.Aborted THEN Err(ErrAborted, current.AbortedMsg)
         ELSE IF Cast(current.Cid) = <<>> THEN Err(ErrParseCid, "")
         ELSE NoErr

\* a return that runs the deferred cancel only when the call succeeded
ReturnDeferred_CancelOnSuccess(w, pc, err) ==
    IF err = NoErr
    THEN [w EXCEPT !.pc = pc, !.err = err, !.le = <<>>, !.cancelled = TRUE,
                   !.sub = IF @ = "open" THEN "closed" ELSE @]
    ELSE [w EXCEPT !.pc = pc, !.err = err, !.le = <<>>]

\* leaving ArchiveWatch after `defer cancel()`: the scoped context is
\* cancelled, which ends the subscription that was opened under it
ReturnDeferred(w, pc, err) ==
    [w EXCEPT !.pc = pc, !.err = err, !.le = <<>>, !.cancelled = TRUE,
              !.sub = IF @ = "open" THEN "closed" ELSE @]

\* a send that puts the line before the lines already sent
Forward_Front(sink, msg) == <<msg>> \o sink

\* ch <- le.LogEntry.Msg
Forward(sink, msg) == Append(sink, msg)

ArchiveStatus(key, reachable) ==
    /\ status' = [called |-> TRUE, key |-> key, read |-> FFSColGet(key, reachable) # <<>>] @@
                  ArchiveStatusOf(FFSColGet(key, reachable))
    /\ UNCHANGED <<store, bucket, ffsCol, pgClient, edits, last, now, prov, watch, mgr>>

\* ArchiveWatch up to the return of WatchLogs; opened: whether WatchLogs
\* returned without an error
WatchCall(key, reachable, opened) ==
    /\ watch.pc = "idle"
    /\ LET w == [watch EXCEPT !.key = key, !.read = FFSColGet(key, reachable) # <<>>]
           err == WatchResolve(FFSColGet(key, reachable))
       IN IF err # NoErr
          THEN watch' = [w EXCEPT !.pc = "returned", !.err = err]
          ELSE LET d == [w EXCEPT !.derived = TRUE] IN
               IF ~pgClient
               THEN watch' = ReturnDeferred(d, "panicked", NoErr)    \* b.pgClient.FFS
               ELSE IF ~opened
               THEN watch' = ReturnDeferred(d, "returned", Err(ErrWatchLogs, ""))
               ELSE watch' = [d EXCEPT !.pc = "range", !.sub = "open"]
    /\ UNCHANGED <<store, bucket, ffsCol, pgClient, edits, last, now, prov, status, mgr>>

\* for le := range ffsCh: a log line arrives
RecvLine(msg) ==
    /\ watch.pc = "range"
    /\ Len(watch.received) < MaxLog
    /\ watch' = [watch EXCEPT !.pc = "send", !.le = <<msg>>,
                              !.received = Append(@, msg)]
    /\ UNCHANGED <<store, bucket, ffsCol, pgClient, edits, last, now, prov, status, mgr>>

\* an error event that is taken while a line is still waiting to be sent
RecvErr_DropsLine ==
    /\ watch.pc \in {"range", "send"}
    /\ watch' = ReturnDeferred(watch, "returned", StreamErr)
    /\ UNCHANGED <<store, bucket, ffsCol, pgClient, edits, last, now, prov, status, mgr>>

\* for le := range ffsCh: an event with le.Err arrives
RecvErr ==
    /\ watch.pc = "range"
    /\ watch' = ReturnDeferred(watch, "returned", StreamErr)
    /\ UNCHANGED <<store, bucket, ffsCol, pgClient, edits, last, now, prov, status, mgr>>

\* for le := range ffsCh: the channel is closed
RecvClosed ==
    /\ watch.pc = "range"
    /\ watch' = ReturnDeferred(watch, "returned", NoErr)
    /\ UNCHANGED <<store, bucket, ffsCol, pgClient, edits, last, now, prov, status, mgr>>

\* ch <- le.LogEntry.Msg: the send completes when the reader of ch takes it
Send ==
    /\ watch.pc = "send"
    /\ watch.reading
    /\ watch' = [watch EXCEPT !.pc = "range", !.le = <<>>,
                              !.sink = Forward(@, watch.le[1])]
    /\ UNCHANGED <<store, bucket, ffsCol, pgClient, edits, last, now, prov, status, mgr>>

\* the caller cancels the context it passed to ArchiveWatch
CallerCancel ==
    /\ watch.pc \in {"range", "send"}
    /\ ~watch.callerDone
    /\ watch' = [watch EXCEPT !.callerDone = TRUE]
    /\ UNCHANGED <<store, bucket, ffsCol, pgClient, edits, last, now, prov, status, mgr>>

\* the reader of ch stops reading
ReaderStops ==
    /\ watch.pc \in {"range", "send"}
    /\ watch.reading
    /\ watch' = [watch EXCEPT !.reading = FALSE]
    /\ UNCHANGED <<store, bucket, ffsCol, pgClient, edits, last, now, prov, status, mgr>>

\* Buckets.Close: b.cancel(), then b.wg.Wait()
Close ==
    /\ ~mgr.closed
    /\ mgr.wg = 0
    /\ mgr' = [mgr EXCEPT !.cancelled = TRUE, !.closed = TRUE]
    /\ UNCHANGED <<store, bucket, ffsCol, pgClient, edits, last, now, prov, status, watch>>

CurrentDomain ==
    {Current(j, js, f, a, am, c) :
        j \in {"", "j1"}, js \in {2, Failed}, f \in {"", "f"}, a \in BOOLEAN, am \in {"", "m"},
        c \in {"", "c1"}}

InitArchive ==
    /\ store = EmptyObj
    /\ bucket = <<>>
    /\ ffsCol \in {EmptyObj} \cup {(TheKey :> FFSInstance("t", "w", cur)) : cur \in CurrentDomain}
    /\ pgClient \in BOOLEAN
    /\ edits = 0
    /\ last = NoCall
    /\ now = 1
    /\ lock = ""
    /\ news = NoNews
    /\ calls = <<>>
    /\ status = NoStatus
    /\ watch = NoWatch
    /\ mgr = NoMgr

NextArchive ==
    \/ \E key \in Keys, reachable \in BOOLEAN : ArchiveStatus(key, reachable)
    \/ \E key \in Keys, reachable \in BOOLEAN, opened \in BOOLEAN :
          WatchCall(key, reachable, opened)
    \/ \E msg \in LogLines : RecvLine(msg)
    \/ RecvErr
    \/ RecvClosed
    \/ Send
    \/ CallerCancel
    \/ ReaderStops
    \/ Close

SpecArchive == InitArchive /\ [][NextArchive]_vars

\* once the caller's context is cancelled, the Powergate client ends the
\* stream: ffsCh delivers an error event or is closed
EndAfterCancel == watch.callerDone /\ (RecvErr \/ RecvClosed)

\* the goroutine of ArchiveWatch runs whenever it can; a send on ch that has
\* a reader completes
SpecArchiveFair ==
    InitArchive /\ [][NextArchive]_vars /\ WF_vars(Send) /\ WF_vars(EndAfterCancel)

-----------------------------------------------------------------------------
(* Properties.  Validated(t): the last call ran the validator on a patch   *)
(* of type t.  Pre is the stored instance the call found, Saved the        *)
(* document that was being saved.                                          *)

Validated(t) == last.op = "validate" /\ last.event.type = t
Pre == last.pre[TheKey]
Saved == MarshalBucket(bucket[1])
Rejections == {RejectOwner, RejectACL, RejectWrite, RejectNew}

\* C1: a create patch is accepted iff the owner in the patch is the author,
\* and is otherwise rejected with "author must match new bucket owner".
C1_CreateAcceptedIffOwnerIsAuthor ==
    Validated("create") =>
        /\ (last.result = Accept) <=> (last.event.json_patch.set.owner = last.author)
        /\ last.result # Accept => last.result = RejectOwner

C1_Witness ==
    /\ Validated("create")
    /\ last.event.json_patch.set.owner \in Identities
    /\ last.event.json_patch.set.owner # last.author
    /\ last.result = RejectOwner

\* C5: a delete patch is accepted iff the author is the owner of the stored
\* instance.
C5_DeleteAcceptedIffOwner ==
    Validated("delete") => ((last.result = Accept) <=> (last.author = Pre.owner))

\* C7: the validator never faults: its result is accept or a rejection with
\* a reason, for every patch kind, author, payload and instance.
C7_ValidatorTotal ==
    last.op = "validate" => last.result \in {Accept} \cup Rejections

\* the paths whose item differs between the stored instance and the saved document
TouchedPaths ==
    {k \in Paths :
        \/ (k \in DOMAIN Pre.items.m) # (k \in DOMAIN Saved.items.m)
        \/ /\ k \in DOMAIN Pre.items.m
           /\ k \in DOMAIN Saved.items.m
           /\ Pre.items.m[k] # Saved.items.m[k]}

\* the touched paths that exist before and after
ExistingTouched == TouchedPaths \cap DOMAIN Pre.items.m \cap DOMAIN Saved.items.m

ACLChanged(k) == Pre.items.m[k].acl # Saved.items.m[k].acl

InWriteSet(author, k) ==
    \E i \in 1..Len(Pre.items.m[k].acl["$w"].v) : Pre.items.m[k].acl["$w"].v[i] = author

\* a save patch that touches existing item paths and nothing else in the item map
TouchesExistingOnly == TouchedPaths # {} /\ TouchedPaths = ExistingTouched

\* C2 as stated: a save patch touching an existing path is accepted iff the
\* author is in the item's Write set, or is the owner when the ACL changes.
C2_AcceptedIffWriterOrOwner ==
    (Validated("save") /\ TouchesExistingOnly) =>
        ((last.result = Accept) <=>
            \A k \in TouchedPaths :
                \/ InWriteSet(last.author, k)
                \/ (ACLChanged(k) /\ last.author = Pre.owner))

\* C2 amended: a save patch touching only existing paths is accepted iff, for
\* every touched path, the author is in the item's Write set and, when the
\* path's ACL changes, is also the owner.
C2_AcceptedIffWriterAndOwnerForACL ==
    (Validated("save") /\ TouchesExistingOnly) =>
        ((last.result = Accept) <=>
            \A k \in TouchedPaths :
                /\ InWriteSet(last.author, k)
                /\ ACLChanged(k) => last.author = Pre.owner)

C2_Witness ==
    /\ Validated("save") /\ TouchesExistingOnly
    /\ \E k \in TouchedPaths :
          ACLChanged(k) /\ last.author = Pre.owner /\ ~InWriteSet(last.author, k)
    /\ last.result = RejectWrite

-----------------------------------------------------------------------------
(* Properties of the manager over the store.  SaveCalled: the last call    *)
(* was a SaveSafe whose save patch reached the validator.                  *)

SaveCalled == last.op = "SaveSafe" /\ last.event.type = "save"

NewPaths == DOMAIN Saved.items.m \ DOMAIN Pre.items.m

\* the stored items whose ACL differs between two documents
ACLDiffers(d1, d2) ==
    {k \in DOMAIN d1.items.m \cap DOMAIN d2.items.m : d1.items.m[k].acl # d2.items.m[k].acl}

\* C3 as stated: an item's ACL changes only through a save patch of the
\* owner, and a save patch that changes a path's ACL and is not authored by
\* the owner is rejected with "only owner can modify bucket access rules".
C3_ACLChangeByOtherRejectedWithACLReason ==
    SaveCalled =>
        /\ ACLDiffers(Pre, store[TheKey]) # {} => last.author = Pre.owner
        /\ (ACLDiffers(Pre, Saved) # {} /\ last.author # Pre.owner) => last.result = RejectACL

\* a step of the store with respect to the ACLs of the stored items
ACLStep ==
    TheKey \in DOMAIN store =>
        /\ (TheKey \in DOMAIN store' /\ ACLDiffers(store[TheKey], store'[TheKey]) # {}) =>
              /\ last'.op = "SaveSafe"
              /\ last'.result = Accept
              /\ last'.author = store[TheKey].owner
        /\ ( /\ last'.op = "SaveSafe"
             /\ last'.event.type = "save"
             /\ last'.author # store[TheKey].owner
             /\ ACLDiffers(store[TheKey], MarshalBucket(bucket'[1])) # {} ) =>
              /\ last'.result \in {RejectACL, RejectWrite, TypeError}
              /\ store' = store

\* C3 amended: an item's ACL changes in the store only by an admitted save
\* patch authored by the owner; a save patch that changes a path's ACL and is
\* not authored by the owner is never admitted: the validator answers "only
\* owner can modify bucket access rules", or "author does not have write
\* access" or faults when an earlier path of the patch fails first.
C3_ACLChangesOnlyByOwnerSave == [][ACLStep]_vars

C3_Witness ==
    /\ SaveCalled
    /\ ACLDiffers(Pre, Saved) # {}
    /\ last.author # Pre.owner
    /\ last.result = RejectWrite
    /\ store = last.pre

\* C4: a save patch that adds item paths is accepted only from the owner: from
\* anyone else it is rejected with "only owner can create new bucket items"
\* and the stored items stay as they were; from the owner it is accepted.
C4_NewPathByOtherRejectedAsNewItem ==
    (SaveCalled /\ NewPaths # {} /\ TouchedPaths = NewPaths) =>
        /\ last.author # Pre.owner => (last.result = RejectNew /\ store = last.pre)
        /\ last.author = Pre.owner => last.result = Accept

\* C6: the stored bucket keeps the Key and the Owner it was created with
\* through every save.
C6_KeyAndOwnerNeverChange ==
    SaveCalled =>
        /\ store[TheKey]["_id"] = Pre["_id"]
        /\ store[TheKey].owner = Pre.owner

-----------------------------------------------------------------------------
(* Properties of the functions on a Bucket.  Before is the Bucket the      *)
(* function was given, After the Bucket it left.                           *)

Before == last.held[1]
After == bucket[1]
UpsertApplied == last.op = "UpsertItemAtPath" /\ last.result = OK /\ last.held # <<>>
EnsureApplied == last.op = "ensureNoNulls" /\ last.held # <<>>

\* C8: UpsertItemAtPath with the content address the item already has leaves
\* the item's CreatedAt, UpdatedAt and ACL unchanged.
C8_UpsertSameCidIdempotent ==
    (UpsertApplied /\ last.args.pth \in DOMAIN Before.Items.m
                   /\ Before.Items.m[last.args.pth].Cid = last.args.cid) =>
        /\ After.Items.m[last.args.pth].CreatedAt = Before.Items.m[last.args.pth].CreatedAt
        /\ After.Items.m[last.args.pth].UpdatedAt = Before.Items.m[last.args.pth].UpdatedAt
        /\ After.Items.m[last.args.pth].ACL = Before.Items.m[last.args.pth].ACL

\* C9: UpsertItemAtPath with a content address different from the item's sets
\* the item's Cid to it and UpdatedAt to the given time, and leaves CreatedAt
\* and ACL as they were.
C9_UpsertNewCidUpdatesCidAndUpdatedAt ==
    (UpsertApplied /\ last.args.pth \in DOMAIN Before.Items.m
                   /\ Before.Items.m[last.args.pth].Cid # last.args.cid) =>
        /\ After.Items.m[last.args.pth].Cid = last.args.cid
        /\ After.Items.m[last.args.pth].UpdatedAt = last.args.nanos
        /\ After.Items.m[last.args.pth].CreatedAt = Before.Items.m[last.args.pth].CreatedAt
        /\ After.Items.m[last.args.pth].ACL = Before.Items.m[last.args.pth].ACL

C9_Witness ==
    /\ UpsertApplied
    /\ last.args.pth \in DOMAIN Before.Items.m
    /\ Before.Items.m[last.args.pth].Cid # last.args.cid
    /\ Before.Items.m[last.args.pth].UpdatedAt # last.args.nanos
    /\ Before.Items.m[last.args.pth].CreatedAt # last.args.nanos
    /\ Before.Items.m[last.args.pth].ACL.Write = List(<<"O", "N">>)
    /\ After.Items.m[last.args.pth].UpdatedAt = last.args.nanos

\* C10: ensureNoNulls leaves non-nil Items and Archives.History, changes
\* nothing else (Current, the items and the history entries included), and
\* normalizing its result again gives the same record.
C10_EnsureNoNullsTotalIdempotent ==
    EnsureApplied =>
        /\ ~After.Items.nil
        /\ ~After.Archives.History.nil
        /\ After.Items.m = Before.Items.m
        /\ After.Archives.History.v = Before.Archives.History.v
        /\ After.Archives.Current = Before.Archives.Current
        /\ \A f \in {"Key", "Owner", "Name", "Version", "EncKey", "Path", "CreatedAt", "UpdatedAt"} :
              After[f] = Before[f]
        /\ ensureNoNulls(After) = After

C10_Witness ==
    /\ EnsureApplied
    /\ Before.Items.nil
    /\ Before.Archives.History.nil
    /\ Before.Archives.Current = Archive("c1", NilList)
    /\ After.Items = Map(EmptyObj)
    /\ After.Archives.History = List(<<>>)

\* C11: the record that New builds and the record that SaveSafe submits after
\* normalizing have non-nil Deals in Archives.Current and in every entry of
\* Archives.History, whatever record SaveSafe was given.
C11_SubmittedDealsNeverNil ==
    /\ ~NewBucket(TheKey, "", "", "p", "O", 1).Archives.Current.Deals.nil
    /\ EnsureApplied =>
          /\ ~MarshalBucket(After).archives.current.deals.nil
          /\ \A i \in 1..Len(MarshalBucket(After).archives.history.v) :
                ~MarshalBucket(After).archives.history.v[i].deals.nil

-----------------------------------------------------------------------------
(* Properties of New, UpsertItemAtPath with any time, and SaveSafe.        *)

\* C12: in the record that SaveSafe submits after New and any UpsertItemAtPath
\* calls, UpdatedAt is not before CreatedAt, for the bucket and for every item.
C12_UpdatedAtNotBeforeCreatedAt ==
    last.op = "SaveSafe" =>
        /\ Saved.updated_at >= Saved.created_at
        /\ \A k \in DOMAIN Saved.items.m :
              Saved.items.m[k].updated_at >= Saved.items.m[k].created_at

-----------------------------------------------------------------------------
(* Properties of concurrent New calls.                                     *)

\* a step in which caller p calls New with a token of another identity than
\* the owner it gives
TokenStep(p) ==
    ( /\ news[p].pc = "idle"
      /\ news'[p] # news[p]
      /\ news'[p].owner # ""
      /\ news'[p].tok # news'[p].owner ) =>
        /\ news'[p].pc = "idle"
        /\ news'[p].err = ErrTokenOwner
        /\ news'[p].ret = <<>>
        /\ UNCHANGED <<store, ffsCol, calls, lock>>

AllTokenSteps == \A p \in Callers : TokenStep(p)

\* C13: New with a token whose subject is not the given owner fails with
\* "token owner mismatch" and changes nothing: no patch reaches the store, no
\* remote call is made, no side record is written.
C13_TokenMismatchHasNoEffect == [][AllTokenSteps]_vars

C13_Witness ==
    /\ pgClient
    /\ news["p1"].err = ErrTokenOwner
    /\ news["p1"].owner = "O" /\ news["p1"].tok = "N"
    /\ news["p2"].pc \in Inside

\* a step in which a call of createFFSInstance fails
FailedStep ==
    (calls' # calls /\ ~calls'[Len(calls')].ok) =>
        LET p == calls'[Len(calls')].caller IN
        /\ news'[p].pc = "idle"
        /\ news'[p].err = ErrFFS
        /\ news'[p].ret = <<>>
        /\ store' = store
        /\ news[p].key \in DOMAIN store'

\* C14: when provisioning fails at any of its steps after the create patch
\* was committed, New returns an error and no bucket, and the bucket stays
\* in the store as it was committed.
C14_FailedProvisioningKeepsRecord == [][FailedStep]_vars

C14_Witness ==
    \E p \in Callers :
        /\ news[p].pc = "idle"
        /\ news[p].err = ErrFFS
        /\ news[p].cause = ErrFFSConfig
        /\ news[p].key \in DOMAIN store
        /\ news[p].key \in DOMAIN ffsCol

\* C15: without a Powergate client, IsArchivingEnabled is false, no remote
\* call is made and no side record is written, and every New whose create
\* patch was admitted returns the bucket and no error.
C15_NoClientNoProvisioning ==
    ~pgClient =>
        /\ ~IsArchivingEnabled
        /\ calls = <<>>
        /\ ffsCol = EmptyObj
        /\ \A p \in Callers :
              /\ news[p].pc \in {"idle", "Lock", "pgClient"}
              /\ news[p].err \in {"", OK, ErrTokenOwner, ErrCreate, Panic}
              /\ (news[p].pc = "idle" /\ news[p].err = OK) =>
                    /\ news[p].ret = <<Built(p)>>
                    /\ news[p].key \in DOMAIN store

C15_Witness ==
    /\ ~pgClient
    /\ news["p1"].pc = "idle" /\ news["p1"].err = OK /\ news["p1"].key = "k1"
    /\ news["p2"].pc = "idle" /\ news["p2"].err = OK /\ news["p2"].key = "k2"
    /\ DOMAIN store = Keys

\* C16: at most one caller at a time is between Lock and Unlock of
\* createFFSInstance, and the remote calls of one provisioning run are not
\* interleaved with those of another.
C16_ProvisioningSerialized ==
    /\ Cardinality({p \in Callers : news[p].pc \in Inside}) <= 1
    /\ \A p \in Callers : news[p].pc \in Inside => lock = p
    /\ \A i \in 1..Len(calls) : \A j \in i..Len(calls) : \A k \in j..Len(calls) :
          calls[i].key = calls[k].key => calls[j].key = calls[i].key

C16_Witness ==
    /\ pgClient
    /\ news["p1"].pc = "FFS.Info" /\ news["p1"].key = "k1"
    /\ news["p2"].pc = "Lock" /\ news["p2"].key = "k2"
    /\ Len(calls) = 1

-----------------------------------------------------------------------------
(* Properties of ArchiveStatus and ArchiveWatch.  StatusOn and WatchOn:    *)
(* the call read the side record of its key; the record's Current follows. *)

StatusOn == status.called /\ status.read
StatusCurrent == ffsCol[status.key].Archives.Current
WatchOn == watch.pc # "idle" /\ watch.read
WatchCurrent == ffsCol[watch.key].Archives.Current

\* C17: ArchiveStatus on a side record without a current job id fails with
\* "no current archive"; on a record with a job id that is not aborted it
\* returns the recorded job status and failure message and no error.
C17_StatusOfCurrentJob ==
    StatusOn =>
        /\ StatusCurrent.JobID = "" => status.err = Err(ErrNoCurrentArchive, "")
        /\ (StatusCurrent.JobID # "" /\ ~StatusCurrent.Aborted) =>
              /\ status.js = StatusCurrent.JobStatus
              /\ status.msg = StatusCurrent.FailureMsg
              /\ status.err = NoErr

C17_Witness ==
    /\ StatusOn
    /\ StatusCurrent.JobID = ""
    /\ StatusCurrent.Aborted
    /\ status.err = Err(ErrNoCurrentArchive, "")

\* C18: when the current job is flagged aborted, ArchiveStatus and
\* ArchiveWatch return the aborted error with the recorded abort message,
\* and ArchiveWatch has sent no line and opened no subscription.
C18_AbortedJobFailsBoth ==
    /\ (StatusOn /\ StatusCurrent.JobID # "" /\ StatusCurrent.Aborted) =>
          status.err = Err(ErrAborted, StatusCurrent.AbortedMsg)
    /\ (WatchOn /\ WatchCurrent.JobID # "" /\ WatchCurrent.Aborted) =>
          /\ watch.pc = "returned"
          /\ watch.err = Err(ErrAborted, WatchCurrent.AbortedMsg)
          /\ watch.sink = <<>>
          /\ watch.received = <<>>
          /\ watch.sub = "none"
          /\ ~watch.derived

C18_Witness ==
    /\ pgClient
    /\ StatusOn /\ status.key = TheKey
    /\ WatchOn /\ watch.key = TheKey
    /\ WatchCurrent.JobID # "" /\ WatchCurrent.Aborted /\ WatchCurrent.AbortedMsg = "m"
    /\ WatchCurrent.Cid = "c1"
    /\ watch.err = Err(ErrAborted, "m")
    /\ status.err = Err(ErrAborted, "m")

\* C19: the lines sent to the output channel are at every moment a prefix of
\* the lines received from the subscription, in the same order.
C19_SinkIsPrefixOfReceived ==
    /\ Len(watch.sink) <= Len(watch.received)
    /\ watch.sink = SubSeq(watch.received, 1, Len(watch.sink))

C19_Witness ==
    /\ watch.received = <<"l1", "l2", "l1">>
    /\ watch.sink = <<"l1", "l2">>
    /\ watch.pc = "send"

\* C20: once ArchiveWatch has left after deriving its context, that context
\* is cancelled and the subscription opened under it is no longer live.
C20_ScopedContextCancelledOnReturn ==
    (watch.pc \in {"returned", "panicked"} /\ watch.derived) =>
        /\ watch.cancelled
        /\ watch.sub # "open"

C20_Witness ==
    /\ watch.pc = "returned"
    /\ watch.derived
    /\ watch.err = StreamErr
    /\ watch.callerDone
    /\ watch.sink # <<>>
    /\ watch.cancelled
    /\ watch.sub = "closed"

-----------------------------------------------------------------------------
(* More properties of the functions on a Bucket.                           *)

\* the ACL sets of a new item: the owner alone, or nothing without an owner
DefaultSet(l, owner) == IF owner # "" THEN l = List(<<owner>>) ELSE len(l) = 0

-----------------------------------------------------------------------------
(* More properties of ArchiveStatus and ArchiveWatch.  SameRead: both were *)
(* called on the same key and both read the side record, or both failed to. *)

SameRead ==
    /\ status.called
    /\ watch.pc # "idle"
    /\ status.key = watch.key
    /\ status.read = watch.read

\* ArchiveWatch returned an error before it opened a subscription
FailedBeforeOpening == watch.pc = "returned" /\ ~watch.derived /\ watch.err # NoErr

\* C25 as stated: on the same side record ArchiveWatch fails before opening a
\* subscription iff ArchiveStatus fails, and then with the same error.
C25_WatchFailsIffStatusFails ==
    SameRead =>
        /\ FailedBeforeOpening <=> status.err # NoErr
        /\ status.err # NoErr => watch.err = status.err

\* C25 amended: whenever ArchiveStatus fails on a side record, ArchiveWatch
\* fails on it before opening a subscription with the same error (read error,
\* no current archive before aborted); where ArchiveStatus succeeds,
\* ArchiveWatch fails before opening a subscription exactly when the recorded
\* cid does not parse, with the cid error.
C25_WatchFailsAsStatusOrOnCid ==
    SameRead =>
        /\ status.err # NoErr => (FailedBeforeOpening /\ watch.err = status.err)
        /\ status.err = NoErr =>
              /\ FailedBeforeOpening <=> Cast(WatchCurrent.Cid) = <<>>
              /\ FailedBeforeOpening => watch.err = Err(ErrParseCid, "")

C25_Witness ==
    /\ SameRead
    /\ watch.read
    /\ WatchCurrent.JobID = ""
    /\ WatchCurrent.Aborted
    /\ status.err = Err(ErrNoCurrentArchive, "")
    /\ watch.err = Err(ErrNoCurrentArchive, "")

\* C26: when an error event arrives, ArchiveWatch returns that error, every
\* line received before it has been sent, and nothing is sent afterwards.
C26_ErrorEventEndsForwarding ==
    (watch.pc = "returned" /\ watch.err = StreamErr) =>
        /\ watch.sink = watch.received
        /\ watch.le = <<>>
        /\ \A msg \in LogLines : ~ENABLED RecvLine(msg)
        /\ ~ENABLED Send

C26_Witness ==
    /\ watch.pc = "returned"
    /\ watch.err = StreamErr
    /\ watch.received = <<"l1", "l2">>
    /\ watch.sink = <<"l1", "l2">>

-----------------------------------------------------------------------------
(* More properties of concurrent New calls.  RunOf(k): the calls that      *)
(* createFFSInstance made for bucket key k, in order.                      *)

\* C23: no operation ends in a fault: New and provisioning end by returning,
\* whatever the owner, the token and the remote answers are, and so does
\* ArchiveWatch on a manager without a Powergate client.
C23_NoOperationFaults ==
    /\ \A p \in Callers : news[p].err # Panic
    /\ watch.pc # "panicked"

StepOrder == <<"FFS.Create", "FFS.Info", "ffsCol.Create", "FFS.SetDefaultConfig">>
CauseOrder == <<ErrFFSCreate, ErrFFSInfo, ErrFFSColCreate, ErrFFSConfig>>

RunOf(k) == SelectSeq(calls, LAMBDA c : c.key = k)

\* C24: provisioning calls create instance, info, side record, default
\* configuration in this order and stops at the first call that fails: a
\* side record exists only after its write succeeded, and the error New
\* returns names the call that failed.
C24_StepsInOrderStopAtFirstFailure ==
    /\ \A k \in Keys :
          /\ Len(RunOf(k)) <= Len(StepOrder)
          /\ \A i \in 1..Len(RunOf(k)) :
                /\ RunOf(k)[i].step = StepOrder[i]
                /\ ~RunOf(k)[i].ok => i = Len(RunOf(k))
          /\ k \in DOMAIN ffsCol <=> (Len(RunOf(k)) >= 3 /\ RunOf(k)[3].ok)
    /\ \A p \in Callers :
          (news[p].pc = "idle" /\ news[p].err = ErrFFS) =>
              /\ RunOf(news[p].key) # <<>>
              /\ ~RunOf(news[p].key)[Len(RunOf(news[p].key))].ok
              /\ news[p].cause = CauseOrder[Len(RunOf(news[p].key))]

C24_Witness ==
    /\ news["p1"].pc = "idle"
    /\ news["p1"].err = ErrFFS
    /\ news["p1"].cause = ErrFFSColCreate
    /\ Len(RunOf(news["p1"].key)) = 3
    /\ news["p1"].key \notin DOMAIN ffsCol
    /\ news["p2"].pc = "FFS.SetDefaultConfig"

\* the successful calls of a step made for bucket key k
Made(k, step) == {i \in 1..Len(calls) : calls[i].key = k /\ calls[i].step = step /\ calls[i].ok}

\* C28: for every key given to New, however often and by whomever, at most
\* one instance is created at the remote service and at most one side record
\* is written.
C28_KeyProvisionedAtMostOnce ==
    \A k \in {TheKey, ""} :
        /\ Cardinality(Made(k, "FFS.Create")) <= 1
        /\ Cardinality(Made(k, "ffsCol.Create")) <= 1

\* C30: after a successful New with a Powergate client the side collection
\* has a record under the Key of the bucket that New returned.
C30_SideRecordKeyedByBucketKey ==
    pgClient =>
        \A p \in Callers :
            (news[p].pc = "idle" /\ news[p].err = OK) =>
                /\ news[p].ret[1].Key \in DOMAIN store
                /\ news[p].ret[1].Key \in DOMAIN ffsCol

-----------------------------------------------------------------------------
(* More properties of the validator.                                       *)

\* C29: a save patch that the validator accepts is authored by the owner or
\* by a member of the Write set of every existing item it touches; an author
\* who is not the owner and is in no Write set gets no save patch accepted.
C29_AdmittedSaveIsByOwnerOrWriter ==
    (Validated("save") /\ last.result = Accept) =>
        \/ last.author = Pre.owner
        \/ /\ \A k \in ExistingTouched : InWriteSet(last.author, k)
           /\ \E k \in DOMAIN Pre.items.m : InWriteSet(last.author, k)

-----------------------------------------------------------------------------
(* Properties of cancellation and of Close.                                *)

\* C21: once the caller has cancelled the context it gave to ArchiveWatch,
\* ArchiveWatch eventually returns, also when the reader of the output
\* channel has stopped reading and when no further event arrives.
C21_CancelledWatchReturns == watch.callerDone ~> (watch.pc = "returned")

\* C22: once Close has returned, no ArchiveWatch loop of this manager is
\* running.
C22_NothingRunsAfterClose == mgr.closed => watch.pc \notin {"range", "send"}

-----------------------------------------------------------------------------
(* Properties of the side record and of the lock of createFFSInstance.     *)

\* C31: whenever New has returned a provisioning error, the side collection
\* has no record under the key of that call.
C31_ProvisioningErrorLeavesNoSideRecord ==
    \A p \in Callers :
        (news[p].pc = "idle" /\ news[p].err = ErrFFS) => news[p].key \notin DOMAIN ffsCol

\* the mutex is held only by a call that is between Lock and its return
HeldOnlyInside == lock # "" => news[lock].pc \in Inside

\* C32: the lock is free once every call of New has returned, by whichever
\* exit (no client, a failed step, success), and a call of New that waits
\* for the lock eventually enters createFFSInstance.
C32_LockReleasedOnEveryExit ==
    /\ []HeldOnlyInside
    /\ \A p \in Callers : (news[p].pc = "Lock") ~> (news[p].pc \in Inside)

\* one call has left through a failed step and the other one has just
\* taken the mutex
C32_Witness ==
    \E p, q \in Callers :
        /\ p # q
        /\ news[p].pc = "idle" /\ news[p].err = ErrFFS
        /\ calls # <<>> /\ calls[Len(calls)].caller = p /\ ~calls[Len(calls)].ok
        /\ lock = q /\ news[q].pc = "pgClient"

====
